---------------------------- MODULE Spec2Model ----------------------------
(***************************************************************************)
(* Model of evora_utils.choose_dark (src/evora_utils.py): selection,       *)
(* scaling or interpolation of a library dark frame for a given exposure   *)
(* time.                                                                   *)
(*                                                                         *)
(* Numbers.  Exposure times, weights and pixel values are exact rationals, *)
(* written <<numerator, denominator>> in lowest terms with a positive      *)
(* denominator (the code computes them in floating point; the model keeps  *)
(* the exact value the float approximates).  <<0, 0>> stands for a local   *)
(* that was never assigned.                                                *)
(*                                                                         *)
(* Frames.  A dark frame is a sequence of NPix pixel values.  <<>> stands  *)
(* for the result variable `dark` never having been assigned.              *)
(***************************************************************************)
EXTENDS Integers, Sequences, FiniteSets, TLC

VARIABLES
    disk,             \* the dark library: file path -> stored frame
    default_explist,  \* the list object bound to the explist default (line 8)
    pc,               \* "idle", "returned" or "raised" (position of the caller)
    args,             \* arguments of the last call
    caller_explist,   \* the caller's list object passed as explist
    dark,             \* the value returned (line 67)
    reads,            \* the files fits.getdata was called on, in order
    stdout,           \* the lines printed by the call
    branch,           \* the branch of lines 36-66 that ran
    locals            \* lower_bound, upper_bound, weight_lower, weight_upper

vars == <<disk, default_explist, pc, args, caller_explist, dark, reads,
          stdout, branch, locals>>

----------------------------------------------------------------------------
(* Bounds of the model *)

\* reference exposures of caller-supplied lists are drawn from 1..MaxExp
MaxExp == 5
\* caller-supplied lists have 1..MaxLen distinct entries
MaxLen == 3
\* target exposures are n/d with d in 1..MaxDen
MaxDen == 2
\* targets of calls with the default list range over (0, MaxDefaultTarget]
MaxDefaultTarget == 601
\* pixels per frame
NPix == 2
\* the library on disk is one of MaxGain variants
MaxGain == 2

----------------------------------------------------------------------------
(* Exact rational arithmetic *)

Abs(x) == IF x < 0 THEN -x ELSE x

RECURSIVE GCD(_, _)
GCD(a, b) == IF b = 0 THEN a ELSE GCD(b, a % b)

\* n/d in lowest terms, d /= 0
Rat(n, d) ==
    LET g == GCD(Abs(n), Abs(d))
        s == IF d < 0 THEN -1 ELSE 1
    IN  <<(s * n) \div g, (s * d) \div g>>

FromInt(i) == <<i, 1>>

RatAdd(a, b) == Rat(a[1] * b[2] + b[1] * a[2], a[2] * b[2])
RatSub(a, b) == Rat(a[1] * b[2] - b[1] * a[2], a[2] * b[2])
RatMul(a, b) == Rat(a[1] * b[1], a[2] * b[2])
RatDiv(a, b) == Rat(a[1] * b[2], a[2] * b[1])
RatLT(a, b) == a[1] * b[2] < b[1] * a[2]

\* Python int(): truncation toward zero
PyInt(x) == IF x[1] >= 0 THEN x[1] \div x[2] ELSE -((-x[1]) \div x[2])

----------------------------------------------------------------------------
(* numpy helpers on the explist array *)

Range(s) == {s[i] : i \in 1..Len(s)}

\* explist.min() / explist.max() of a non-empty integer array
ArrMin(S) == CHOOSE m \in S : \A x \in S : m <= x
ArrMax(S) == CHOOSE m \in S : \A x \in S : x <= m

\* explist[explist < exptime], explist[explist > exptime]
MaskBelow(exptime, explist) == {e \in Range(explist) : RatLT(FromInt(e), exptime)}
MaskAbove(exptime, explist) == {e \in Range(explist) : RatLT(exptime, FromInt(e))}

----------------------------------------------------------------------------
(* Files *)

DefaultDarkDir == "darks"
DefaultSuffix == "medcombine_sub"
DefaultExplist == <<5, 10, 20, 30, 60, 120, 300>>

\* os.path.join(dark_dir, 'dark_{}s_{}.fits'.format(e, suffix))
DarkFile(dark_dir, e, suffix) == [dir |-> dark_dir, exptime |-> e, suffix |-> suffix]

\* fits.getdata(darkfile): the stored frame; <<>> where the file is missing
GetData(d, darkfile) == IF darkfile \in DOMAIN d THEN d[darkfile] ELSE <<>>


----------------------------------------------------------------------------
(* The branch conditions of choose_dark *)

\* mutant: the membership test without the truncation, exptime in explist
InExplist_NoTruncation(exptime, explist) ==
    exptime[2] = 1 /\ exptime[1] \in Range(explist)

\* line 36: int(exptime) in explist
InExplist(exptime, explist) == PyInt(exptime) \in Range(explist)

\* mutant: exptime <= explist.min()
BelowMin_OrEqual(exptime, explist) ==
    ~RatLT(FromInt(ArrMin(Range(explist))), exptime)

\* line 42: exptime < explist.min()
BelowMin(exptime, explist) == RatLT(exptime, FromInt(ArrMin(Range(explist))))

\* mutant: the first and last entries taken for the minimum and the maximum,
\* (exptime > explist[0]) & (exptime < explist[-1])
Between_FirstAndLast(exptime, explist) ==
    /\ RatLT(FromInt(explist[1]), exptime)
    /\ RatLT(exptime, FromInt(explist[Len(explist)]))

\* line 47: (exptime > explist.min()) & (exptime < explist.max())
Between(exptime, explist) ==
    /\ RatLT(FromInt(ArrMin(Range(explist))), exptime)
    /\ RatLT(exptime, FromInt(ArrMax(Range(explist))))

\* line 61: exptime > explist.max()
AboveMax(exptime, explist) == RatLT(FromInt(ArrMax(Range(explist))), exptime)

----------------------------------------------------------------------------
(* Arithmetic on frames *)

\* lines 46, 66: frame * exptime / ref, elementwise
Scale(frame, exptime, ref) ==
    [p \in 1..Len(frame) |-> RatDiv(RatMul(frame[p], exptime), FromInt(ref))]

\* line 49: explist[explist < exptime].max()
LowerBound(exptime, explist) == ArrMax(MaskBelow(exptime, explist))

\* line 50: explist[explist > exptime].min()
UpperBound(exptime, explist) == ArrMin(MaskAbove(exptime, explist))

\* mutant: weight_lower computed as weight_upper is, (upper_bound - exptime) / diff
WeightLower_FromUpper(exptime, lower_bound, upper_bound) ==
    RatDiv(RatSub(FromInt(upper_bound), exptime), FromInt(upper_bound - lower_bound))

\* lines 51-52: (exptime - lower_bound) / diff
WeightLower(exptime, lower_bound, upper_bound) ==
    RatDiv(RatSub(exptime, FromInt(lower_bound)), FromInt(upper_bound - lower_bound))

\* mutant: weight_upper divided by upper_bound instead of diff
WeightUpper_WrongDivisor(exptime, lower_bound, upper_bound) ==
    RatDiv(RatSub(FromInt(upper_bound), exptime), FromInt(upper_bound))

\* lines 51, 53: (upper_bound - exptime) / diff
WeightUpper(exptime, lower_bound, upper_bound) ==
    RatDiv(RatSub(FromInt(upper_bound), exptime), FromInt(upper_bound - lower_bound))

\* line 60: dark1 * weight_lower + dark2 * weight_upper, elementwise
Combine(dark1, weight_lower, dark2, weight_upper) ==
    IF dark1 = <<>> \/ dark2 = <<>> THEN <<>>
    ELSE [p \in 1..Len(dark1) |->
             RatAdd(RatMul(dark1[p], weight_lower), RatMul(dark2[p], weight_upper))]

----------------------------------------------------------------------------
(* The four branches.  Each yields the value of `dark`, the files read,    *)
(* the lines printed and the locals of the interpolation.                  *)

NoRat == <<0, 0>>
NoLocals == [lower_bound |-> 0, upper_bound |-> 0,
             weight_lower |-> NoRat, weight_upper |-> NoRat]

Using(darkfile) == [text |-> "Using", files |-> <<darkfile>>]
Averaging(darkfile1, darkfile2) == [text |-> "Averaging", files |-> <<darkfile1, darkfile2>>]

\* lines 37-40
ExactBranch(exptime, dark_dir, suffix, explist, verbose, d) ==
    LET darkfile == DarkFile(dark_dir, PyInt(exptime), suffix)
    IN  [branch |-> "exact",
         stdout |-> IF verbose THEN <<Using(darkfile)>> ELSE <<>>,
         reads  |-> <<darkfile>>,
         dark   |-> GetData(d, darkfile),
         locals |-> NoLocals]

\* mutant: the file named after int(exptime), as in line 37, not after the minimum
BelowBranch_FileOfTarget(exptime, dark_dir, suffix, explist, verbose, d) ==
    LET min == ArrMin(Range(explist))
        darkfile == DarkFile(dark_dir, PyInt(exptime), suffix)
    IN  [branch |-> "below",
         stdout |-> <<>>,
         reads  |-> <<darkfile>>,
         dark   |-> Scale(GetData(d, darkfile), exptime, min),
         locals |-> NoLocals]

\* lines 43-46 (this branch has no print)
BelowBranch(exptime, dark_dir, suffix, explist, verbose, d) ==
    LET min == ArrMin(Range(explist))
        darkfile == DarkFile(dark_dir, min, suffix)
    IN  [branch |-> "below",
         stdout |-> <<>>,
         reads  |-> <<darkfile>>,
         dark   |-> Scale(GetData(d, darkfile), exptime, min),
         locals |-> NoLocals]

\* lines 48-60
InterpBranch(exptime, dark_dir, suffix, explist, verbose, d) ==
    IF MaskBelow(exptime, explist) = {} \/ MaskAbove(exptime, explist) = {}
    THEN \* max()/min() of an empty array raises ValueError
         [branch |-> "interp", stdout |-> <<>>, reads |-> <<>>, dark |-> <<>>,
          locals |-> NoLocals]
    ELSE
    LET lower_bound == LowerBound(exptime, explist)
        upper_bound == UpperBound(exptime, explist)
        weight_lower == WeightLower(exptime, lower_bound, upper_bound)
        weight_upper == WeightUpper(exptime, lower_bound, upper_bound)
        darkfile1 == DarkFile(dark_dir, lower_bound, suffix)
        darkfile2 == DarkFile(dark_dir, upper_bound, suffix)
        dark1 == GetData(d, darkfile1)
        dark2 == GetData(d, darkfile2)
    IN  [branch |-> "interp",
         stdout |-> IF verbose THEN <<Averaging(darkfile1, darkfile2)>> ELSE <<>>,
         reads  |-> IF dark1 = <<>> THEN <<darkfile1>> ELSE <<darkfile1, darkfile2>>,
         dark   |-> Combine(dark1, weight_lower, dark2, weight_upper),
         locals |-> [lower_bound |-> lower_bound, upper_bound |-> upper_bound,
                     weight_lower |-> weight_lower, weight_upper |-> weight_upper]]

\* mutant: the longest dark divided by explist.min(), as in line 46
AboveBranch_DividedByMin(exptime, dark_dir, suffix, explist, verbose, d) ==
    LET max == ArrMax(Range(explist))
        darkfile == DarkFile(dark_dir, max, suffix)
    IN  [branch |-> "above",
         stdout |-> IF verbose THEN <<Using(darkfile)>> ELSE <<>>,
         reads  |-> <<darkfile>>,
         dark   |-> Scale(GetData(d, darkfile), exptime, ArrMin(Range(explist))),
         locals |-> NoLocals]

\* lines 62-66
AboveBranch(exptime, dark_dir, suffix, explist, verbose, d) ==
    LET max == ArrMax(Range(explist))
        darkfile == DarkFile(dark_dir, max, suffix)
    IN  [branch |-> "above",
         stdout |-> IF verbose THEN <<Using(darkfile)>> ELSE <<>>,
         reads  |-> <<darkfile>>,
         dark   |-> Scale(GetData(d, darkfile), exptime, max),
         locals |-> NoLocals]

\* no branch of lines 36-66 assigns `dark`: line 67 raises UnboundLocalError
NoBranch == [branch |-> "none", stdout |-> <<>>, reads |-> <<>>, dark |-> <<>>,
             locals |-> NoLocals]

\* lines 35-67: the if / else: if / elif / elif chain
ChooseDark(exptime, dark_dir, suffix, explist, verbose, d) ==
    IF InExplist(exptime, explist)
    THEN ExactBranch(exptime, dark_dir, suffix, explist, verbose, d)
    ELSE IF BelowMin(exptime, explist)
    THEN BelowBranch(exptime, dark_dir, suffix, explist, verbose, d)
    ELSE IF Between(exptime, explist)
    THEN InterpBranch(exptime, dark_dir, suffix, explist, verbose, d)
    ELSE IF AboveMax(exptime, explist)
    THEN AboveBranch(exptime, dark_dir, suffix, explist, verbose, d)
    ELSE NoBranch

\* mutant: the list sorted in place (explist.sort()) before the array is made
RECURSIVE Ascending(_)
Ascending(S) ==
    IF S = {} THEN <<>> ELSE <<ArrMin(S)>> \o Ascending(S \ {ArrMin(S)})
ListObjectAfter_SortedInPlace(explist) == Ascending(Range(explist))

\* line 35: explist = np.array(explist) copies the list and rebinds the local
\* name; the object the caller (or the default) holds is left as it was
ListObjectAfter(explist) == explist

----------------------------------------------------------------------------
(* Inputs *)

Suffixes == {DefaultSuffix, "raw"}

\* the library holds a frame for every exposure a reference list may name
LibraryExposures == (1..MaxExp) \cup Range(DefaultExplist)
LibraryPaths ==
    {DarkFile(DefaultDarkDir, e, s) : e \in LibraryExposures, s \in Suffixes}

\* stored pixel p of the dark of exposure e in library variant g: dark current
\* g per second plus a fixed pattern, so frames are neither equal nor
\* proportional to one another
StoredFrame(g, e, s) ==
    [p \in 1..NPix |->
        FromInt(g * e + p * (1 + (e % 2)) + (IF s = DefaultSuffix THEN 0 ELSE 1))]

\* non-empty lists of distinct positive integers, in any order
RECURSIVE DistinctSeqs(_, _)
DistinctSeqs(S, n) ==
    IF n = 0 THEN {<<>>}
    ELSE LET shorter == DistinctSeqs(S, n - 1)
         IN  shorter \cup {Append(l, e) : l \in {x \in shorter : Len(x) = n - 1},
                                         e \in S} 
Explists ==
    {l \in DistinctSeqs(1..MaxExp, MaxLen) :
        /\ Len(l) >= 1
        /\ \A i, j \in 1..Len(l) : i /= j => l[i] /= l[j]}

\* targets n/d in lowest terms with 0 < n/d <= top
TargetsUpTo(top) ==
    {<<n, d>> : n \in 1..(top * MaxDen), d \in 1..MaxDen} \cap
    {t \in (1..(top * MaxDen)) \X (1..MaxDen) : GCD(t[1], t[2]) = 1 /\ t[1] <= top * t[2]}

Targets == TargetsUpTo(MaxExp + 1)
DefaultTargets == TargetsUpTo(MaxDefaultTarget)

----------------------------------------------------------------------------
(* The state machine: a caller invoking choose_dark again and again *)

NoArgs == [exptime |-> NoRat, dark_dir |-> "", suffix |-> "", explist |-> <<>>,
           verbose |-> FALSE, defaulted |-> FALSE]

Init ==
    /\ \E g \in 1..MaxGain :
          disk = [f \in LibraryPaths |-> StoredFrame(g, f.exptime, f.suffix)]
    /\ default_explist = DefaultExplist
    /\ pc = "idle"
    /\ args = NoArgs
    /\ caller_explist = <<>>
    /\ dark = <<>>
    /\ reads = <<>>
    /\ stdout = <<>>
    /\ branch = "none"
    /\ locals = NoLocals

\* the effect of one call on the state
Effect(r) ==
    /\ pc' = IF r.dark = <<>> THEN "raised" ELSE "returned"
    /\ dark' = r.dark
    /\ reads' = r.reads
    /\ stdout' = r.stdout
    /\ branch' = r.branch
    /\ locals' = r.locals
    /\ UNCHANGED disk

\* choose_dark(exptime, suffix=suffix, explist=explist, verbose=verbose)
CallWith ==
    /\ pc = "idle"
    /\ \E exptime \in Targets, suffix \in Suffixes, explist \in Explists,
          verbose \in BOOLEAN :
          /\ args' = [exptime |-> exptime, dark_dir |-> DefaultDarkDir,
                      suffix |-> suffix, explist |-> explist, verbose |-> verbose,
                      defaulted |-> FALSE]
          /\ Effect(ChooseDark(exptime, DefaultDarkDir, suffix, explist, verbose, disk))
          /\ caller_explist' = ListObjectAfter(explist)
    /\ UNCHANGED default_explist

\* choose_dark(exptime, suffix=suffix, verbose=verbose): explist takes its default
CallDefault ==
    /\ pc = "idle"
    /\ \E exptime \in DefaultTargets, suffix \in Suffixes, verbose \in BOOLEAN :
          /\ args' = [exptime |-> exptime, dark_dir |-> DefaultDarkDir,
                      suffix |-> suffix, explist |-> default_explist,
                      verbose |-> verbose, defaulted |-> TRUE]
          /\ Effect(ChooseDark(exptime, DefaultDarkDir, suffix, default_explist,
                               verbose, disk))
    /\ default_explist' = ListObjectAfter(default_explist)
    /\ UNCHANGED caller_explist

\* the caller takes the result (or the exception) and is ready to call again
Return ==
    /\ pc /= "idle"
    /\ pc' = "idle"
    /\ args' = NoArgs
    /\ caller_explist' = <<>>
    /\ dark' = <<>>
    /\ reads' = <<>>
    /\ stdout' = <<>>
    /\ branch' = "none"
    /\ locals' = NoLocals
    /\ UNCHANGED <<disk, default_explist>>

Next == CallWith \/ CallDefault \/ Return

Spec == Init /\ [][Next]_vars

----------------------------------------------------------------------------
(* Vocabulary of the properties *)

Called == pc /= "idle"
Target == args.exptime
Refs == Range(args.explist)
RefMin == ArrMin(Refs)
RefMax == ArrMax(Refs)
IsInteger(x) == x[2] = 1
RatLE(a, b) == ~RatLT(b, a)

\* the path of the library dark of exposure e under the call's directory and suffix
FileOf(e) == [dir |-> args.dark_dir, exptime |-> e, suffix |-> args.suffix]
\* the frame stored for exposure e
Stored(e) == disk[FileOf(e)]
\* frame f with every pixel multiplied by the rational k
Times(f, k) == [p \in 1..Len(f) |-> RatMul(f[p], k)]
Files(seq) == {seq[i] : i \in 1..Len(seq)}

----------------------------------------------------------------------------
\* C1: whenever the truncation toward zero of the target is a member of the
\* reference list, the call returns the stored frame of exposure int(target)
\* pixel for pixel, reads that one file only, and runs the exact-match branch
\* (no scaling, no interpolation), also when the target equals the minimum or
\* the maximum reference.
C1_ExactMatch ==
    (Called /\ PyInt(Target) \in Refs) =>
        /\ pc = "returned"
        /\ branch = "exact"
        /\ dark = Stored(PyInt(Target))
        /\ reads = <<FileOf(PyInt(Target))>>
        /\ locals = NoLocals

\* a fractional target above the maximum whose truncation is the maximum, and
\* the maximum's frame returned as stored
C1_Witness ==
    /\ pc = "returned"
    /\ ~IsInteger(Target)
    /\ Len(args.explist) >= 2
    /\ PyInt(Target) = RefMax
    /\ dark = Stored(RefMax)

----------------------------------------------------------------------------
\* C2: in the interpolation branch every result pixel is the linear
\* interpolation in exposure time between the bracketing frames,
\* dark(lower) + (dark(upper) - dark(lower)) * (target - lower)/(upper - lower).
C2_LinearInterpolation ==
    (pc = "returned" /\ branch = "interp") =>
        LET lo == locals.lower_bound
            hi == locals.upper_bound
            frac == RatDiv(RatSub(Target, FromInt(lo)), FromInt(hi - lo))
        IN  \A p \in 1..NPix :
               dark[p] = RatAdd(Stored(lo)[p],
                                RatMul(RatSub(Stored(hi)[p], Stored(lo)[p]), frac))

----------------------------------------------------------------------------
\* C3: in the interpolation branch lower_bound is the greatest reference
\* strictly below the target, upper_bound the least reference strictly above
\* it, no reference lies strictly between them, and every result pixel is
\* dark(lower) * (target - lower)/(upper - lower)
\*   + dark(upper) * (upper - target)/(upper - lower);
\* at 15 between 10 and 20 both weights are 1/2, at 12 between 10 and 20 the
\* frame of exposure 10 has weight 1/5 and the frame of exposure 20 weight 4/5.
C3_InterpolationAsCoded ==
    (pc = "returned" /\ branch = "interp") =>
        LET lo == locals.lower_bound
            hi == locals.upper_bound
            wlo == RatDiv(RatSub(Target, FromInt(lo)), FromInt(hi - lo))
            whi == RatDiv(RatSub(FromInt(hi), Target), FromInt(hi - lo))
        IN  /\ lo \in Refs /\ RatLT(FromInt(lo), Target)
            /\ hi \in Refs /\ RatLT(Target, FromInt(hi))
            /\ \A e \in Refs : RatLT(FromInt(e), Target) => e <= lo
            /\ \A e \in Refs : RatLT(Target, FromInt(e)) => hi <= e
            /\ \A e \in Refs : ~(lo < e /\ e < hi)
            /\ reads = <<FileOf(lo), FileOf(hi)>>
            /\ \A p \in 1..NPix :
                  dark[p] = RatAdd(RatMul(Stored(lo)[p], wlo), RatMul(Stored(hi)[p], whi))
            /\ (lo = 10 /\ hi = 20 /\ Target = <<15, 1>>) =>
                  /\ locals.weight_lower = <<1, 2>>
                  /\ locals.weight_upper = <<1, 2>>
            /\ (lo = 10 /\ hi = 20 /\ Target = <<12, 1>>) =>
                  /\ locals.weight_lower = <<1, 5>>
                  /\ locals.weight_upper = <<4, 5>>

\* target 12 with the default list: 1/5 of dark(10) plus 4/5 of dark(20)
C3_Witness ==
    /\ pc = "returned"
    /\ branch = "interp"
    /\ args.defaulted
    /\ Target = <<12, 1>>
    /\ locals.lower_bound = 10
    /\ locals.upper_bound = 20
    /\ dark = [p \in 1..NPix |->
                 RatAdd(RatMul(Stored(10)[p], <<1, 5>>), RatMul(Stored(20)[p], <<4, 5>>))]

----------------------------------------------------------------------------
\* C4 as stated: for every target strictly greater than the maximum reference
\* the call reads only the maximum's file and returns its frame with every
\* pixel multiplied by target / maximum.
C4_AboveMaxScalesAlways ==
    (Called /\ RatLT(FromInt(RefMax), Target)) =>
        /\ pc = "returned"
        /\ reads = <<FileOf(RefMax)>>
        /\ dark = Times(Stored(RefMax), RatDiv(Target, FromInt(RefMax)))

\* C4 amended: for every target strictly greater than the maximum reference
\* the call reads only the maximum's file; it returns that frame multiplied
\* by target / maximum when int(target) is not in the list (target >=
\* maximum + 1), and returns it unmodified when int(target) is the maximum
\* (maximum < target < maximum + 1).
C4_AboveMaxScales ==
    (Called /\ RatLT(FromInt(RefMax), Target)) =>
        /\ pc = "returned"
        /\ reads = <<FileOf(RefMax)>>
        /\ (PyInt(Target) \notin Refs) =>
              /\ branch = "above"
              /\ RatLE(FromInt(RefMax + 1), Target)
              /\ dark = Times(Stored(RefMax), RatDiv(Target, FromInt(RefMax)))
        /\ (PyInt(Target) \in Refs) =>
              /\ branch = "exact"
              /\ PyInt(Target) = RefMax
              /\ dark = Stored(RefMax)

\* target 600 with the default list (maximum 300): dark(300) * 2
C4_Witness ==
    /\ pc = "returned"
    /\ branch = "above"
    /\ args.defaulted
    /\ Target = <<600, 1>>
    /\ dark = Times(Stored(300), <<2, 1>>)

----------------------------------------------------------------------------
\* C5: for every target with 0 < target < minimum reference the call reads
\* only the minimum's file and returns its frame with every pixel multiplied
\* by target / minimum.
C5_BelowMinScales ==
    (Called /\ RatLT(<<0, 1>>, Target) /\ RatLT(Target, FromInt(RefMin))) =>
        /\ pc = "returned"
        /\ branch = "below"
        /\ reads = <<FileOf(RefMin)>>
        /\ dark = Times(Stored(RefMin), RatDiv(Target, FromInt(RefMin)))

\* target 2 with the default list (minimum 5): dark(5) * 2/5
C5_Witness ==
    /\ pc = "returned"
    /\ branch = "below"
    /\ args.defaulted
    /\ Target = <<2, 1>>
    /\ dark = Times(Stored(5), <<2, 5>>)

----------------------------------------------------------------------------
(* The four case conditions of a call, on its arguments *)
Case1 == InExplist(Target, args.explist)
Case2 == BelowMin(Target, args.explist)
Case3 == Between(Target, args.explist) /\ \A e \in Refs : Target /= FromInt(e)
Case4 == AboveMax(Target, args.explist)
CasesHolding == {i \in 1..4 : (i = 1 /\ Case1) \/ (i = 2 /\ Case2)
                              \/ (i = 3 /\ Case3) \/ (i = 4 /\ Case4)}

\* C6 as stated: for every call at most one of the four case conditions holds.
C6_CasesExclusiveAlways == Called => Cardinality(CasesHolding) <= 1

\* C6 amended: cases 2, 3 and 4 are mutually exclusive and case 1 excludes
\* case 2; for an integer target at most one of the four holds; for a
\* fractional target whose truncation is in the list case 1 holds together
\* with case 3 or case 4, and then the order decides: case 1 is taken.
C6_CasesExclusive ==
    Called =>
        /\ Cardinality(CasesHolding \ {1}) <= 1
        /\ ~(Case1 /\ Case2)
        /\ IsInteger(Target) => Cardinality(CasesHolding) <= 1
        /\ Cardinality(CasesHolding) = 2 =>
              /\ ~IsInteger(Target)
              /\ Case1
              /\ branch = "exact"
              /\ dark = Stored(PyInt(Target))

\* a fractional target inside the range whose truncation is a reference:
\* cases 1 and 3 both hold, and the exact-match branch ran
C6_Witness ==
    /\ pc = "returned"
    /\ CasesHolding = {1, 3}
    /\ branch = "exact"

----------------------------------------------------------------------------
\* C7: whenever verbose is true a call that returns has printed exactly one
\* line, which names exactly the files the call read; when verbose is false
\* nothing is printed.
C7_VerboseOneLine ==
    pc = "returned" =>
        /\ args.verbose =>
              /\ Len(stdout) = 1
              /\ Files(stdout[1].files) = Files(reads)
        /\ ~args.verbose => stdout = <<>>

----------------------------------------------------------------------------
\* C8: every call reads one file, or two in the interpolation branch, each
\* the file dark_<e>s_<suffix>.fits of a member e of the reference list in
\* the call's directory, and no step changes the caller's list, the shared
\* default list or any stored frame.
C8_SideEffects ==
    [][ /\ disk' = disk
        /\ default_explist' = default_explist
        /\ (pc = "idle" /\ pc' /= "idle") =>
              /\ Len(reads') = (IF branch' = "interp" THEN 2 ELSE 1)
              /\ \A i \in 1..Len(reads') :
                    \E e \in Range(args'.explist) :
                       reads'[i] = [dir |-> args'.dark_dir, exptime |-> e,
                                    suffix |-> args'.suffix]
              /\ ~args'.defaulted => caller_explist' = args'.explist
              /\ args'.defaulted => args'.explist = DefaultExplist
      ]_vars

\* an interpolating call with an unsorted caller list and the non-default
\* suffix: two files read, the list as the caller passed it
C8_Witness ==
    /\ pc = "returned"
    /\ branch = "interp"
    /\ Len(reads) = 2
    /\ args.suffix /= DefaultSuffix
    /\ ~args.defaulted
    /\ \E i \in 1..(Len(args.explist) - 1) : args.explist[i] > args.explist[i + 1]
    /\ caller_explist = args.explist

----------------------------------------------------------------------------
\* C9: every call with a non-empty list of distinct positive integers and a
\* target > 0 runs one of the four branches and returns with the result
\* assigned; the fall-through to line 67 with `dark` unbound never happens.
C9_Totality ==
    Called =>
        /\ branch \in {"exact", "below", "interp", "above"}
        /\ pc = "returned"
        /\ Len(dark) = NPix

\* a single-element list and a target above it
C9_Witness ==
    /\ pc = "returned"
    /\ Len(args.explist) = 1
    /\ ~IsInteger(Target)
    /\ branch = "above"

----------------------------------------------------------------------------
\* C10: whenever the interpolation branch is entered the references strictly
\* below and strictly above the target are both non-empty, lower_bound <
\* target < upper_bound, the divisor is positive, both weights lie strictly
\* between 0 and 1 and they sum to 1.
C10_WeightsWellDefined ==
    (Called /\ branch = "interp") =>
        /\ MaskBelow(Target, args.explist) /= {}
        /\ MaskAbove(Target, args.explist) /= {}
        /\ RatLT(FromInt(locals.lower_bound), Target)
        /\ RatLT(Target, FromInt(locals.upper_bound))
        /\ locals.upper_bound - locals.lower_bound > 0
        /\ locals.weight_lower[2] > 0 /\ locals.weight_upper[2] > 0
        /\ RatLT(<<0, 1>>, locals.weight_lower) /\ RatLT(locals.weight_lower, <<1, 1>>)
        /\ RatLT(<<0, 1>>, locals.weight_upper) /\ RatLT(locals.weight_upper, <<1, 1>>)
        /\ RatAdd(locals.weight_lower, locals.weight_upper) = <<1, 1>>

\* an interpolation with unequal weights
C10_Witness ==
    /\ pc = "returned"
    /\ branch = "interp"
    /\ locals.weight_lower /= locals.weight_upper
    /\ Len(args.explist) = 3

============================================================================
